---- MODULE Spec2Model ----
(***************************************************************************)
(* Model of the news-feed fetcher (changeelog/mid), src/src/index.ts:      *)
(* the NewsFeedFetcher class (initialize, getContent, saveToJSON, close),  *)
(* the main() run and the process exit.  src/feed.ts and the unnamed       *)
(* part_000 are earlier iterations of the same script with the same        *)
(* control flow; the model follows index.ts, the most developed one.       *)
(*                                                                         *)
(* Text is a sequence of one-character strings.  The browser, the page and *)
(* the file system are the environment: every awaited browser call either  *)
(* resolves or rejects, and every file-system call either returns or       *)
(* throws.                                                                 *)
(***************************************************************************)
EXTENDS Integers, Sequences, FiniteSets, TLC

\* ---------------------------------------------------------------- bounds

\* Longest tag text the tag-parsing specification enumerates.
MaxTagLen == 7

\* Most listing items a document of the extraction specification holds.
MaxItems == 3

\* Most records a list handed to saveToJSON holds in the persistence specification.
MaxRecords == 2

\* ------------------------------------------------------------------ text

Chars == {"a", "b", ",", " "}

\* The literal separator of split(', ').
Separator == <<",", " ">>

\* Every text of length at most n over Chars.
Texts(n) == UNION {[1..k -> Chars] : k \in 0..n}

IsSpace(c) == c = " "

RECURSIVE TrimStart(_)
TrimStart(s) ==
  IF s # <<>> /\ IsSpace(Head(s)) THEN TrimStart(Tail(s)) ELSE s

RECURSIVE TrimEnd(_)
TrimEnd(s) ==
  IF s # <<>> /\ IsSpace(s[Len(s)]) THEN TrimEnd(SubSeq(s, 1, Len(s) - 1)) ELSE s

\* String.prototype.trim
Trim(s) == TrimEnd(TrimStart(s))

StartsWith(s, p) == Len(s) >= Len(p) /\ SubSeq(s, 1, Len(p)) = p

\* String.prototype.split with a non-empty separator: scan left to right, cut
\* at every occurrence; the piece being built is cur.  The empty text gives
\* one empty piece.
RECURSIVE SplitFrom(_, _, _)
SplitFrom(s, sep, cur) ==
  IF s = <<>> THEN <<cur>>
  ELSE IF StartsWith(s, sep)
       THEN <<cur>> \o SplitFrom(SubSeq(s, Len(sep) + 1, Len(s)), sep, <<>>)
       ELSE SplitFrom(Tail(s), sep, Append(cur, Head(s)))

Split(s, sep) == SplitFrom(s, sep, <<>>)

\* An array is truthy in JavaScript, the empty one included, so the
\* `|| []` of the tags expression never replaces the result of split.
Truthy(array) == TRUE

\* tagsElement.textContent?.trim().split(', ') || []   (the element is present)
TagsOfText(text) ==
  LET parts == Split(Trim(text), Separator)
  IN  IF Truthy(parts) THEN parts ELSE <<>>

\* ------------------------------------------------------------ extraction

\* The tags of a listing item: no tags element, or its text.
NoTags == [present |-> FALSE, text |-> <<>>]
TagsText(t) == [present |-> TRUE, text |-> t]

\* The tag elements the documents of the model carry.
ItemTags == {NoTags, TagsText(<<"a", ",", " ", "b">>)}

\* An .announce__item node: which of its sub-elements exist.
Items == [date : BOOLEAN, time : BOOLEAN, link : BOOLEAN, tags : ItemTags]

GoodItem == [date |-> TRUE, time |-> TRUE, link |-> TRUE, tags |-> NoTags]

SeqsUpTo(S, n) == UNION {[1..k -> S] : k \in 0..n}

\* A rendered document: whether .announce.announce_articles exists, the
\* .announce__item nodes inside it in document order, and the .announce__item
\* nodes elsewhere in the document.
Doms(n) ==
  {[container |-> TRUE, items |-> its, outside |-> out] :
      its \in SeqsUpTo(Items, n), out \in {<<>>, <<GoodItem>>}}
  \cup
  {[container |-> FALSE, items |-> <<>>, outside |-> out] :
      out \in {<<>>, <<GoodItem>>}}

\* The record pushed for the node at position i; date, time, title and link
\* are the node's own texts, kept as the node's position.
NewsItem(i, item) ==
  [src |-> i,
   tags |-> IF item.tags.present THEN TagsOfText(item.tags.text) ELSE <<>>]

\* announceItems.forEach: items.push for a node with date, time and link.
RECURSIVE ForEachItem(_, _, _)
ForEachItem(nodes, i, items) ==
  IF i > Len(nodes) THEN items
  ELSE ForEachItem(nodes, i + 1,
         IF nodes[i].date /\ nodes[i].time /\ nodes[i].link
         THEN Append(items, NewsItem(i, nodes[i]))
         ELSE items)

\* A plausible slip: the time element is not required.
EvaluateNoTimeCheck(dom) ==
  IF ~dom.container THEN <<>>
  ELSE LET RECURSIVE Loop(_, _)
           Loop(i, items) ==
             IF i > Len(dom.items) THEN items
             ELSE Loop(i + 1,
                    IF dom.items[i].date /\ dom.items[i].link
                    THEN Append(items, NewsItem(i, dom.items[i]))
                    ELSE items)
       IN  Loop(1, <<>>)

\* The page.evaluate callback.
Evaluate(dom) ==
  IF ~dom.container THEN <<>>
  ELSE ForEachItem(dom.items, 1, <<>>)

\* --------------------------------------------------------- JSON.stringify

\* The output text as a sequence of tokens (the indentation of
\* JSON.stringify(data, null, 2) is white space between tokens).
P(c) == [k |-> "p", v |-> c]
KeyTok(name) == [k |-> "key", v |-> name]
NumTok(i) == [k |-> "num", v |-> i]
StrTok(s) == [k |-> "str", v |-> s]

\* The members or elements, separated by commas.
RECURSIVE CommaSep(_)
CommaSep(parts) ==
  IF parts = <<>> THEN <<>>
  ELSE IF Len(parts) = 1 THEN parts[1]
       ELSE parts[1] \o <<P(",")>> \o CommaSep(Tail(parts))

StringifyTags(tags) ==
  <<P("[")>> \o CommaSep([i \in 1..Len(tags) |-> <<StrTok(tags[i])>>]) \o <<P("]")>>

StringifyItem(r) ==
  <<P("{"), KeyTok("src"), NumTok(r.src), P(","), KeyTok("tags")>>
    \o StringifyTags(r.tags) \o <<P("}")>>

\* JSON.stringify(data, null, 2) of a NewsItem[]
Stringify(data) ==
  <<P("[")>> \o CommaSep([i \in 1..Len(data) |-> StringifyItem(data[i])]) \o <<P("]")>>

\* Reading the text back (JSON.parse), to say what a file holds.
ParseFail == [ok |-> FALSE, val |-> <<>>, pos |-> 0]
ParseOk(val, pos) == [ok |-> TRUE, val |-> val, pos |-> pos]

IsP(toks, p, c) == p <= Len(toks) /\ toks[p].k = "p" /\ toks[p].v = c
IsK(toks, p, kind) == p <= Len(toks) /\ toks[p].k = kind

RECURSIVE ParseStrs(_, _, _)
ParseStrs(toks, p, acc) ==
  IF ~IsK(toks, p, "str") THEN ParseFail
  ELSE LET acc2 == Append(acc, toks[p].v)
       IN  IF IsP(toks, p + 1, ",") THEN ParseStrs(toks, p + 2, acc2)
           ELSE IF IsP(toks, p + 1, "]") THEN ParseOk(acc2, p + 2)
           ELSE ParseFail

ParseTagArray(toks, p) ==
  IF ~IsP(toks, p, "[") THEN ParseFail
  ELSE IF IsP(toks, p + 1, "]") THEN ParseOk(<<>>, p + 2)
  ELSE ParseStrs(toks, p + 1, <<>>)

ParseItem(toks, p) ==
  IF ~(/\ IsP(toks, p, "{")
       /\ IsK(toks, p + 1, "key") /\ toks[p + 1].v = "src"
       /\ IsK(toks, p + 2, "num")
       /\ IsP(toks, p + 3, ",")
       /\ IsK(toks, p + 4, "key") /\ toks[p + 4].v = "tags")
  THEN ParseFail
  ELSE LET t == ParseTagArray(toks, p + 5)
       IN  IF t.ok /\ IsP(toks, t.pos, "}")
           THEN ParseOk([src |-> toks[p + 2].v, tags |-> t.val], t.pos + 1)
           ELSE ParseFail

RECURSIVE ParseItems(_, _, _)
ParseItems(toks, p, acc) ==
  LET r == ParseItem(toks, p)
  IN  IF ~r.ok THEN ParseFail
      ELSE LET acc2 == Append(acc, r.val)
           IN  IF IsP(toks, r.pos, ",") THEN ParseItems(toks, r.pos + 1, acc2)
               ELSE IF IsP(toks, r.pos, "]") THEN ParseOk(acc2, r.pos + 1)
               ELSE ParseFail

\* The whole text is one array of records, with nothing after it.
Parse(toks) ==
  LET r == IF ~IsP(toks, 1, "[") THEN ParseFail
           ELSE IF IsP(toks, 2, "]") THEN ParseOk(<<>>, 3)
           ELSE ParseItems(toks, 2, <<>>)
  IN  IF r.ok /\ r.pos = Len(toks) + 1 THEN r ELSE ParseFail

\* ----------------------------------------------------------- file system

FileNames == {"news_feed.json", "archive.json"}

NoFile == [exists |-> FALSE, text |-> <<>>]
FileOf(text) == [exists |-> TRUE, text |-> text]

\* The record lists handed to saveToJSON: up to n records, one without tags
\* and one with two.
SaveRecords == {[src |-> 1, tags |-> <<>>], [src |-> 2, tags |-> <<<<"a">>, <<"b">>>>]}
RecordLists(n) == SeqsUpTo(SaveRecords, n)

\* What ./output may hold before a run.
OldFiles == {NoFile, FileOf(Stringify(<<>>)),
             FileOf(Stringify(<<[src |-> 1, tags |-> <<>>]>>))}

\* ------------------------------------------------------------------ state

VARIABLES
  pc,         \* where the run is: the statement about to execute
  browser,    \* this.browser: "null" or "set"
  page,       \* this.page: "null" or "set"
  session,    \* the browser process: "none", "open" or "closed"
  err,        \* the exception in flight: "none" or what threw it
  calls,      \* the fetcher methods invoked, in order
  ops,        \* the browser and page calls made, in order
  logged,     \* the lines handed to the logger
  failed,     \* the fetcher methods that threw
  raisedBy,   \* the browser, page and file-system calls whose failure propagated
  timedOut,   \* the waits that timed out
  marker,     \* whether page.content() held the interstitial marker
  newsItems,  \* what getContent returned: [set, val]
  dom,        \* the document page.evaluate ran in
  dirExists,  \* whether ./output exists
  files,      \* the files of ./output
  files0,     \* the files of ./output when the run began
  lastSave,   \* per file name, the outcome of the last saveToJSON naming it
  exitCode,   \* the exit status, once pc = "exited"
  tagText,    \* the text of a tags element, for the tag-parsing specification
  out         \* the result of the function a specification applies: [done, val]

vars == <<pc, browser, page, session, err, calls, ops, logged, failed, raisedBy,
          timedOut, marker, newsItems, dom, dirExists, files, files0, lastSave,
          exitCode, tagText, out>>

browserVars == <<browser, page, session>>
gcVars == <<timedOut, marker, newsItems, dom>>
fsVars == <<dirExists, files, lastSave>>
fnVars == <<tagText, out>>

Line(level, msg) == [level |-> level, msg |-> msg]

NoResult == [set |-> FALSE, val |-> <<>>]
EmptyDom == [container |-> FALSE, items |-> <<>>, outside |-> <<>>]
NeverSaved == [st |-> "none", data |-> <<>>]

\* The documents the run's page may show when page.evaluate runs.
RunDoms == Doms(1)

\* What the file system may hold when a run begins.
InitFs ==
  /\ dirExists \in BOOLEAN
  /\ files \in [FileNames -> OldFiles]
  /\ ~dirExists => \A f \in FileNames : ~files[f].exists
  /\ files0 = files
  /\ lastSave = [f \in FileNames |-> NeverSaved]

\* A fetcher just constructed: browser and page are null.
InitFetcher ==
  /\ browser = "null" /\ page = "null" /\ session = "none"
  /\ err = "none" /\ calls = <<>> /\ ops = <<>> /\ logged = {}
  /\ failed = {} /\ raisedBy = {} /\ timedOut = {}
  /\ marker = FALSE /\ newsItems = NoResult /\ dom = EmptyDom
  /\ exitCode = 0

InitFn == tagText = <<>> /\ out = [done |-> FALSE, val |-> <<>>]

Init == pc = "main" /\ InitFetcher /\ InitFs /\ InitFn

\* --------------------------------------------------------- NewsFeedFetcher

\* What no step of a run changes.
fixedVars == <<files0, tagText, out>>

\* main: const fetcher = new NewsFeedFetcher(); await fetcher.initialize()
CallInitialize ==
  /\ pc = "main"
  /\ calls' = Append(calls, "initialize")
  /\ pc' = "launch"
  /\ UNCHANGED <<browserVars, err, ops, logged, failed, raisedBy, gcVars, fsVars,
                 exitCode, fixedVars>>

\* this.browser = await puppeteer.launch(browserOptions)
Launch ==
  /\ pc = "launch"
  /\ ops' = Append(ops, "launch")
  /\ \/ /\ browser' = "set" /\ session' = "open"
        /\ pc' = "newPage"
        /\ UNCHANGED raisedBy
     \/ /\ raisedBy' = raisedBy \cup {"launch"}
        /\ pc' = "initCatch"
        /\ UNCHANGED <<browser, session>>
  /\ UNCHANGED <<page, err, calls, logged, failed, gcVars, fsVars, exitCode, fixedVars>>

\* this.page = await this.browser.newPage()
NewPage ==
  /\ pc = "newPage"
  /\ ops' = Append(ops, "newPage")
  /\ \/ /\ page' = "set"
        /\ pc' = "setUserAgent"
        /\ UNCHANGED raisedBy
     \/ /\ raisedBy' = raisedBy \cup {"newPage"}
        /\ pc' = "initCatch"
        /\ UNCHANGED page
  /\ UNCHANGED <<browser, session, err, calls, logged, failed, gcVars, fsVars,
                 exitCode, fixedVars>>

\* await this.page.setUserAgent(...)
SetUserAgent ==
  /\ pc = "setUserAgent"
  /\ ops' = Append(ops, "setUserAgent")
  /\ \/ /\ pc' = "setExtraHTTPHeaders"
        /\ UNCHANGED raisedBy
     \/ /\ raisedBy' = raisedBy \cup {"setUserAgent"}
        /\ pc' = "initCatch"
  /\ UNCHANGED <<browserVars, err, calls, logged, failed, gcVars, fsVars, exitCode,
                 fixedVars>>

\* await this.page.setExtraHTTPHeaders(...); logger.info(...); initialize returns
SetExtraHTTPHeaders ==
  /\ pc = "setExtraHTTPHeaders"
  /\ ops' = Append(ops, "setExtraHTTPHeaders")
  /\ \/ /\ logged' = logged \cup {Line("info", "Browser initialized successfully")}
        /\ pc' = "getContent"
        /\ UNCHANGED raisedBy
     \/ /\ raisedBy' = raisedBy \cup {"setExtraHTTPHeaders"}
        /\ pc' = "initCatch"
        /\ UNCHANGED logged
  /\ UNCHANGED <<browserVars, err, calls, failed, gcVars, fsVars, exitCode, fixedVars>>

\* A plausible slip: the catch of initialize logs and does not rethrow.
InitCatchSwallows ==
  /\ pc = "initCatch"
  /\ logged' = logged \cup {Line("error", "Failed to initialize browser")}
  /\ pc' = "getContent"
  /\ UNCHANGED <<browserVars, err, calls, ops, failed, raisedBy, gcVars, fsVars,
                 exitCode, fixedVars>>

\* initialize: catch (error) { logger.error(...); throw new Error(...) }
InitCatch ==
  /\ pc = "initCatch"
  /\ logged' = logged \cup {Line("error", "Failed to initialize browser")}
  /\ failed' = failed \cup {"initialize"}
  /\ err' = "Browser initialization failed"
  /\ pc' = "mainCatch"
  /\ UNCHANGED <<browserVars, calls, ops, raisedBy, gcVars, fsVars, exitCode, fixedVars>>

\* main: await fetcher.getContent(1), up to the navigation
CallGetContent ==
  /\ pc = "getContent"
  /\ calls' = Append(calls, "getContent")
  /\ IF page = "null"
     THEN /\ failed' = failed \cup {"getContent"}
          /\ err' = "Browser not initialized"
          /\ pc' = "mainCatch"
          /\ UNCHANGED logged
     ELSE /\ logged' = logged \cup {Line("info", "Fetching page")}
          /\ pc' = "goto"
          /\ UNCHANGED <<failed, err>>
  /\ UNCHANGED <<browserVars, ops, raisedBy, gcVars, fsVars, exitCode, fixedVars>>

\* await this.page.goto(url, { waitUntil: 'domcontentloaded', timeout: 60000 })
Goto ==
  /\ pc = "goto"
  /\ ops' = Append(ops, "goto")
  /\ \/ /\ pc' = "waitForSelector"
        /\ UNCHANGED raisedBy
     \/ /\ raisedBy' = raisedBy \cup {"goto"}
        /\ pc' = "getContentCatch"
  /\ UNCHANGED <<browserVars, err, calls, logged, failed, gcVars, fsVars, exitCode,
                 fixedVars>>

\* A plausible slip: the wait has no .catch, so its timeout propagates.
WaitForSelectorNoCatch ==
  /\ pc = "waitForSelector"
  /\ ops' = Append(ops, "waitForSelector")
  /\ \/ /\ pc' = "content"
        /\ UNCHANGED <<timedOut, raisedBy>>
     \/ /\ timedOut' = timedOut \cup {"waitForSelector"}
        /\ raisedBy' = raisedBy \cup {"waitForSelector"}
        /\ pc' = "getContentCatch"
  /\ UNCHANGED <<browserVars, err, calls, logged, failed, marker, newsItems, dom,
                 fsVars, exitCode, fixedVars>>

\* await this.page.waitForSelector(..., { timeout: 10000 }).catch(() => logger.warn(...))
WaitForSelector ==
  /\ pc = "waitForSelector"
  /\ ops' = Append(ops, "waitForSelector")
  /\ \/ UNCHANGED <<timedOut, logged>>
     \/ /\ timedOut' = timedOut \cup {"waitForSelector"}
        /\ logged' = logged \cup {Line("warn", "Timeout waiting for .announce.announce_articles")}
  /\ pc' = "content"
  /\ UNCHANGED <<browserVars, err, calls, failed, raisedBy, marker, newsItems, dom,
                 fsVars, exitCode, fixedVars>>

\* const pageContent = await this.page.content(); if (pageContent.includes(...))
Content ==
  /\ pc = "content"
  /\ ops' = Append(ops, "content")
  /\ \/ /\ marker' = TRUE
        /\ logged' = logged \cup {Line("info", "Anti-bot protection detected")}
        /\ pc' = "waitForNavigation"
        /\ UNCHANGED raisedBy
     \/ /\ marker' = FALSE
        /\ pc' = "evaluate"
        /\ UNCHANGED <<raisedBy, logged>>
     \/ /\ raisedBy' = raisedBy \cup {"content"}
        /\ pc' = "getContentCatch"
        /\ UNCHANGED <<marker, logged>>
  /\ UNCHANGED <<browserVars, err, calls, failed, timedOut, newsItems, dom, fsVars,
                 exitCode, fixedVars>>

\* await this.page.waitForNavigation({ ..., timeout: 30000 }).catch(() => logger.warn(...))
WaitForNavigation ==
  /\ pc = "waitForNavigation"
  /\ ops' = Append(ops, "waitForNavigation")
  /\ \/ UNCHANGED <<timedOut, logged>>
     \/ /\ timedOut' = timedOut \cup {"waitForNavigation"}
        /\ logged' = logged \cup {Line("warn", "Timeout waiting for navigation")}
  /\ pc' = "evaluate"
  /\ UNCHANGED <<browserVars, err, calls, failed, raisedBy, marker, newsItems, dom,
                 fsVars, exitCode, fixedVars>>

\* A plausible slip: an empty extraction is thrown as an error.
EvaluatePageThrowsOnEmpty ==
  /\ pc = "evaluate"
  /\ ops' = Append(ops, "evaluate")
  /\ \/ \E d \in RunDoms :
          /\ dom' = d
          /\ IF Evaluate(d) = <<>>
             THEN /\ pc' = "getContentCatch"
                  /\ UNCHANGED <<newsItems, logged>>
             ELSE /\ newsItems' = [set |-> TRUE, val |-> Evaluate(d)]
                  /\ logged' = logged \cup {Line("info", "Found news items")}
                  /\ pc' = "saveToJSON"
          /\ UNCHANGED raisedBy
     \/ /\ raisedBy' = raisedBy \cup {"evaluate"}
        /\ pc' = "getContentCatch"
        /\ UNCHANGED <<newsItems, dom, logged>>
  /\ UNCHANGED <<browserVars, err, calls, failed, timedOut, marker, fsVars, exitCode,
                 fixedVars>>

\* const newsItems = await this.page.evaluate(...); logger.info(...); return newsItems
EvaluatePage ==
  /\ pc = "evaluate"
  /\ ops' = Append(ops, "evaluate")
  /\ \/ \E d \in RunDoms :
          /\ dom' = d
          /\ newsItems' = [set |-> TRUE, val |-> Evaluate(d)]
          /\ logged' = logged \cup {Line("info", "Found news items")}
          /\ pc' = "saveToJSON"
          /\ UNCHANGED raisedBy
     \/ /\ raisedBy' = raisedBy \cup {"evaluate"}
        /\ pc' = "getContentCatch"
        /\ UNCHANGED <<newsItems, dom, logged>>
  /\ UNCHANGED <<browserVars, err, calls, failed, timedOut, marker, fsVars, exitCode,
                 fixedVars>>

\* A plausible slip: the catch of getContent logs and returns nothing.
GetContentCatchSwallows ==
  /\ pc = "getContentCatch"
  /\ logged' = logged \cup {Line("error", "Error fetching content")}
  /\ pc' = "saveToJSON"
  /\ UNCHANGED <<browserVars, err, calls, ops, failed, raisedBy, gcVars, fsVars,
                 exitCode, fixedVars>>

\* getContent: catch (error) { logger.error(...); throw new Error(...) }
GetContentCatch ==
  /\ pc = "getContentCatch"
  /\ logged' = logged \cup {Line("error", "Error fetching content")}
  /\ failed' = failed \cup {"getContent"}
  /\ err' = "Failed to fetch content"
  /\ pc' = "mainCatch"
  /\ UNCHANGED <<browserVars, calls, ops, raisedBy, gcVars, fsVars, exitCode, fixedVars>>

\* A plausible slip: the text is appended to the file (appendFileSync).
SaveToJSONAppends(data, filename, ok) ==
  \/ /\ ~dirExists /\ ~ok
     /\ raisedBy' = raisedBy \cup {"mkdirSync"}
     /\ logged' = logged \cup {Line("error", "Error saving data to JSON")}
     /\ UNCHANGED <<dirExists, files>>
  \/ /\ ok
     /\ dirExists' = TRUE
     /\ files' = [files EXCEPT ![filename] = FileOf(files[filename].text \o Stringify(data))]
     /\ logged' = logged \cup {Line("info", "Data saved")}
     /\ UNCHANGED raisedBy
  \/ /\ ~ok
     /\ dirExists' = TRUE
     /\ files' \in {files, [files EXCEPT ![filename] = FileOf(<<>>)]}
     /\ raisedBy' = raisedBy \cup {"writeFileSync"}
     /\ logged' = logged \cup {Line("error", "Error saving data to JSON")}

\* saveToJSON(data, filename); ok is whether it returns (TRUE) or throws.
\* mkdirSync may throw when ./output is missing; writeFileSync may throw,
\* before it opened the file (nothing changes) or after (the file is cut).
SaveToJSON(data, filename, ok) ==
  \/ /\ ~dirExists /\ ~ok
     /\ raisedBy' = raisedBy \cup {"mkdirSync"}
     /\ logged' = logged \cup {Line("error", "Error saving data to JSON")}
     /\ UNCHANGED <<dirExists, files>>
  \/ /\ ok
     /\ dirExists' = TRUE
     /\ files' = [files EXCEPT ![filename] = FileOf(Stringify(data))]
     /\ logged' = logged \cup {Line("info", "Data saved")}
     /\ UNCHANGED raisedBy
  \/ /\ ~ok
     /\ dirExists' = TRUE
     /\ files' \in {files, [files EXCEPT ![filename] = FileOf(<<>>)]}
     /\ raisedBy' = raisedBy \cup {"writeFileSync"}
     /\ logged' = logged \cup {Line("error", "Error saving data to JSON")}

\* The outcome of a saveToJSON call, kept per file name.
Saved(filename, data, ok) ==
  lastSave' = [lastSave EXCEPT ![filename] =
                 IF ok THEN [st |-> "ok", data |-> data]
                       ELSE [st |-> "failed", data |-> <<>>]]

\* main: await fetcher.saveToJSON(newsItems, 'news_feed.json'); logger.info(...)
CallSaveToJSON ==
  /\ pc = "saveToJSON"
  /\ calls' = Append(calls, "saveToJSON")
  /\ \E ok \in BOOLEAN :
       /\ SaveToJSON(newsItems.val, "news_feed.json", ok)
       /\ Saved("news_feed.json", newsItems.val, ok)
       /\ IF ok
          THEN /\ pc' = "finally"
               /\ UNCHANGED <<failed, err>>
          ELSE /\ failed' = failed \cup {"saveToJSON"}
               /\ err' = "Failed to save data to JSON"
               /\ pc' = "mainCatch"
  /\ UNCHANGED <<browserVars, ops, gcVars, exitCode, fixedVars>>

\* main: catch (error) { logger.error('An error occurred:', error) }
MainCatch ==
  /\ pc = "mainCatch"
  /\ logged' = logged \cup {Line("error", "An error occurred")}
  /\ err' = "none"
  /\ pc' = "finally"
  /\ UNCHANGED <<browserVars, calls, ops, failed, raisedBy, gcVars, fsVars, exitCode,
                 fixedVars>>

\* A plausible slip: close tests this.page, not this.browser.
CallCloseTestsPage ==
  /\ pc = "finally"
  /\ calls' = Append(calls, "close")
  /\ pc' = IF page = "set" THEN "browserClose" ELSE "resolved"
  /\ UNCHANGED <<browserVars, err, ops, logged, failed, raisedBy, gcVars, fsVars,
                 exitCode, fixedVars>>

\* main: finally { await fetcher.close() }; close: if (this.browser)
CallClose ==
  /\ pc = "finally"
  /\ calls' = Append(calls, "close")
  /\ pc' = IF browser = "set" THEN "browserClose" ELSE "resolved"
  /\ UNCHANGED <<browserVars, err, ops, logged, failed, raisedBy, gcVars, fsVars,
                 exitCode, fixedVars>>

\* close: await this.browser.close(); logger.info('Browser closed').
\* When the call rejects, the browser process may or may not be gone.
BrowserClose ==
  /\ pc = "browserClose"
  /\ ops' = Append(ops, "browser.close")
  /\ \/ /\ session' = "closed"
        /\ logged' = logged \cup {Line("info", "Browser closed")}
        /\ pc' = "resolved"
        /\ UNCHANGED <<raisedBy, failed, err>>
     \/ /\ session' \in {"open", "closed"}
        /\ raisedBy' = raisedBy \cup {"browser.close"}
        /\ failed' = failed \cup {"close"}
        /\ err' = "browser.close failed"
        /\ pc' = "rejected"
        /\ UNCHANGED logged
  /\ UNCHANGED <<browser, page, calls, gcVars, fsVars, exitCode, fixedVars>>

\* The exit status of process.exit(1).
ExitFailure == 1

\* main() resolved: nothing is left to run and the process exits with status 0.
MainResolved ==
  /\ pc = "resolved"
  /\ exitCode' = 0
  /\ pc' = "exited"
  /\ UNCHANGED <<browserVars, err, calls, ops, logged, failed, raisedBy, gcVars,
                 fsVars, fixedVars>>

\* main().catch((error) => { logger.error(...); process.exit(1) })
MainRejected ==
  /\ pc = "rejected"
  /\ logged' = logged \cup {Line("error", "Unhandled error in main function")}
  /\ exitCode' = ExitFailure
  /\ pc' = "exited"
  /\ UNCHANGED <<browserVars, err, calls, ops, failed, raisedBy, gcVars, fsVars,
                 fixedVars>>

Next ==
  \/ CallInitialize \/ Launch \/ NewPage \/ SetUserAgent \/ SetExtraHTTPHeaders
  \/ InitCatch
  \/ CallGetContent \/ Goto \/ WaitForSelector \/ Content \/ WaitForNavigation
  \/ EvaluatePage \/ GetContentCatch
  \/ CallSaveToJSON \/ MainCatch \/ CallClose \/ BrowserClose
  \/ MainResolved \/ MainRejected

\* One run of main().
Spec == Init /\ [][Next]_vars

\* Every awaited call settles: each is bounded by a timeout of its own
\* (goto 60 s, the waits 10 s and 30 s) or of the browser protocol.
FairSpec == Spec /\ WF_vars(Next)

\* ------------------------------------------- saveToJSON called repeatedly

InitSave == pc = "saving" /\ InitFetcher /\ InitFs /\ InitFn

\* A caller's saveToJSON(data, filename), any number of times.
SaveCall ==
  /\ pc = "saving"
  /\ \E data \in RecordLists(MaxRecords), filename \in FileNames, ok \in BOOLEAN :
       /\ SaveToJSON(data, filename, ok)
       /\ Saved(filename, data, ok)
  /\ UNCHANGED <<pc, browserVars, err, calls, ops, failed, gcVars, exitCode, fixedVars>>

SpecSave == InitSave /\ [][SaveCall]_vars

\* ------------------------------------------ the extraction on a document

InitExtract ==
  /\ pc = "extract" /\ InitFetcher /\ InitFs /\ InitFn
  /\ dirExists /\ \A f \in FileNames : ~files[f].exists

\* The document the page shows, then the callback run in it.
LoadDocument ==
  /\ pc = "extract"
  /\ \E d \in Doms(MaxItems) : dom' = d
  /\ pc' = "loaded"
  /\ UNCHANGED <<browserVars, err, calls, ops, logged, failed, raisedBy, timedOut,
                 marker, newsItems, fsVars, exitCode, fixedVars>>

RunEvaluate ==
  /\ pc = "loaded"
  /\ out' = [done |-> TRUE, val |-> Evaluate(dom)]
  /\ pc' = "extracted"
  /\ UNCHANGED <<browserVars, err, calls, ops, logged, failed, raisedBy, gcVars,
                 fsVars, exitCode, files0, tagText>>

SpecExtract == InitExtract /\ [][LoadDocument \/ RunEvaluate]_vars

\* ------------------------------------------------ the tags of a tag text

InitTags ==
  /\ pc = "tags" /\ InitFetcher /\ InitFs /\ InitFn
  /\ dirExists /\ \A f \in FileNames : ~files[f].exists

\* The text of the tags element, then the tags expression applied to it.
ReadTagText ==
  /\ pc = "tags"
  /\ \E t \in Texts(MaxTagLen) : tagText' = t
  /\ pc' = "read"
  /\ UNCHANGED <<browserVars, err, calls, ops, logged, failed, raisedBy, gcVars,
                 fsVars, exitCode, files0, out>>

RunTagsOfText ==
  /\ pc = "read"
  /\ out' = [done |-> TRUE, val |-> TagsOfText(tagText)]
  /\ pc' = "parsed"
  /\ UNCHANGED <<browserVars, err, calls, ops, logged, failed, raisedBy, gcVars,
                 fsVars, exitCode, files0, tagText>>

SpecTags == InitTags /\ [][ReadTagText \/ RunTagsOfText]_vars

\* ----------------------------------------------------------------- claims

Has(seq, x) == \E i \in 1..Len(seq) : seq[i] = x

\* The browser and page calls of initialize.
InitCalls == {"launch", "newPage", "setUserAgent", "setExtraHTTPHeaders"}

\* The bounded waits of getContent.
Waits == {"waitForSelector", "waitForNavigation"}

C2_NonZeroExitOnFailure ==
  (pc = "exited" /\ failed \cap {"initialize", "getContent", "saveToJSON"} # {}) =>
     /\ exitCode # 0
     /\ Line("error", "An error occurred") \in logged
     /\ Has(calls, "close")

\* C3: close() never propagates a failure: a failing browser.close() is
\* absorbed and the run still resolves.
C3_CloseNeverThrows ==
  /\ "close" \notin failed
  /\ pc # "rejected"

\* C4: once a call of initialize has failed, no navigation is attempted,
\* getContent and saveToJSON are never invoked and the output files are as
\* they were when the run began; initialize itself has failed to its caller.
C4_InitFailureStopsRun ==
  raisedBy \cap InitCalls # {} =>
     /\ ~Has(ops, "goto")
     /\ ~Has(calls, "getContent")
     /\ ~Has(calls, "saveToJSON")
     /\ files = files0
     /\ pc # "initCatch" => "initialize" \in failed

\* C4 witness: the user agent could not be set on an open page, an output
\* file existed, and the run has ended.
C4_Witness ==
  /\ pc = "exited" /\ "setUserAgent" \in raisedBy /\ page = "set"
  /\ files0["news_feed.json"].exists

\* C5: the methods run in the order initialize, getContent, saveToJSON,
\* close, each at most once; getContent only after initialize completed,
\* saveToJSON only after getContent returned a list; close may follow any of
\* them and nothing runs after it.
C5_CallOrder ==
  /\ calls \in {<<>>, <<"initialize">>,
                <<"initialize", "getContent">>,
                <<"initialize", "getContent", "saveToJSON">>,
                <<"initialize", "close">>,
                <<"initialize", "getContent", "close">>,
                <<"initialize", "getContent", "saveToJSON", "close">>}
  /\ Has(calls, "getContent") =>
       /\ raisedBy \cap InitCalls = {}
       /\ Has(ops, "setExtraHTTPHeaders")
       /\ "initialize" \notin failed
  /\ Has(calls, "saveToJSON") =>
       /\ newsItems.set
       /\ "getContent" \notin failed
  /\ Has(calls, "close") => pc \in {"browserClose", "resolved", "rejected", "exited"}
  /\ pc = "exited" => Has(calls, "close")

\* C5 witness: a run in which all four methods ran.
C5_Witness ==
  /\ pc = "exited"
  /\ calls = <<"initialize", "getContent", "saveToJSON", "close">>

C7_Original ==
  "getContent" \in failed => "goto" \in raisedBy

\* C7 (amended): getContent on an initialized fetcher fails only if the
\* navigation, reading the page content or the extraction call failed; the
\* two waits never make it fail, and an extraction of zero records is
\* returned as a successful empty list.
C7_FailureCauses ==
  /\ "getContent" \in failed =>
        /\ raisedBy \cap {"goto", "content", "evaluate"} # {}
        /\ raisedBy \cap Waits = {}
  /\ (Has(ops, "evaluate") /\ "evaluate" \notin raisedBy) =>
        /\ "getContent" \notin failed
        /\ newsItems = [set |-> TRUE, val |-> Evaluate(dom)]

\* C7 witness: the navigation completed, reading the page content failed and
\* getContent failed.
C7_Witness ==
  /\ "getContent" \in failed
  /\ "content" \in raisedBy /\ "goto" \notin raisedBy

\* The listing items with a date, a time and a link element.
Eligible(d) ==
  {i \in 1..Len(d.items) : d.items[i].date /\ d.items[i].time /\ d.items[i].link}

\* C8: the records are exactly the listing items with a date, a time and a
\* link element, one each and in document order; a record of an item without
\* tags element has no tags; without the listing container there is no record.
C8_ExtractionExact ==
  (pc = "extracted" /\ out.done) =>
     LET r == out.val
     IN  /\ Len(r) = Cardinality(Eligible(dom))
         /\ \A k \in 1..Len(r) : r[k].src \in Eligible(dom)
         /\ \A i \in Eligible(dom) : \E k \in 1..Len(r) : r[k].src = i
         /\ \A j, k \in 1..Len(r) : j < k => r[j].src < r[k].src
         /\ \A k \in 1..Len(r) :
               ~dom.items[r[k].src].tags.present => r[k].tags = <<>>
         /\ ~dom.container => r = <<>>

\* C8 witness: two well-formed items around one without time element give
\* two records.
C8_Witness ==
  /\ pc = "extracted" /\ out.done
  /\ Len(dom.items) = 3
  /\ 1 \in Eligible(dom) /\ 3 \in Eligible(dom)
  /\ dom.items[2].date /\ ~dom.items[2].time /\ dom.items[2].link
  /\ Len(out.val) = 2

RECURSIVE Join(_, _)
Join(parts, sep) ==
  IF parts = <<>> THEN <<>>
  ELSE IF Len(parts) = 1 THEN parts[1]
       ELSE parts[1] \o sep \o Join(Tail(parts), sep)

Contains(s, p) ==
  \E i \in 1..(Len(s) - Len(p) + 1) : SubSeq(s, i, i + Len(p) - 1) = p

\* The pieces of a non-empty trimmed text: joined by the separator they give
\* the text back, and none holds the separator.
PiecesOf(r, t) ==
  /\ r # <<>>
  /\ Join(r, Separator) = t
  /\ \A k \in 1..Len(r) : ~Contains(r[k], Separator)

\* C9: the tags are the pieces of the trimmed text between the separators
\* ", ", in order, and an empty tag text gives no tag at all.
C9_TagsSplit ==
  (pc = "parsed" /\ out.done) =>
     /\ tagText = <<"a", ",", " ", "b", ",", " ", "a">> =>
           out.val = <<<<"a">>, <<"b">>, <<"a">>>>
     /\ IF Trim(tagText) = <<>> THEN out.val = <<>>
        ELSE PiecesOf(out.val, Trim(tagText))

\* What the code does for C9: the split of every text, the empty one with
\* its single empty piece.
TagsSplitAsCoded ==
  (pc = "parsed" /\ out.done) => PiecesOf(out.val, Trim(tagText))

\* C10: after a successful saveToJSON the file of that name holds exactly
\* the list of that call, whatever it held before, in a directory that
\* exists; an empty list leaves the text [].
C10_FileHoldsLastSave ==
  \A f \in FileNames :
     lastSave[f].st = "ok" =>
        /\ dirExists
        /\ files[f].exists
        /\ Parse(files[f].text).ok
        /\ Parse(files[f].text).val = lastSave[f].data
        /\ lastSave[f].data = <<>> => files[f].text = <<P("["), P("]")>>

\* C10 witness: a file that held one record now holds the two of the last
\* successful call.
C10_Witness ==
  /\ files0["news_feed.json"].exists
  /\ Len(Parse(files0["news_feed.json"].text).val) = 1
  /\ lastSave["news_feed.json"].st = "ok"
  /\ Len(lastSave["news_feed.json"].data) = 2
  /\ Parse(files["news_feed.json"].text).val = lastSave["news_feed.json"].data

====
